---- MODULE Spec2Model ----
(***************************************************************************)
(* A model of the relational storage kernel of custom-rdbms:               *)
(* StorageEngine (one JSON file per table), SchemaManager (one shared      *)
(* master_schema.json), IndexEngine (in-memory primary-key hash index)     *)
(* and ExecutionEngine (table lifecycle and row CRUD).                     *)
(*                                                                         *)
(* Every engine method is a pure operator from an engine state             *)
(*   st = [schema_file, files, tmp_files, indexes]                         *)
(* to a result [st, err, count]; every action of the state machine applies *)
(* one ExecutionEngine (or StorageEngine) method as a whole.               *)
(***************************************************************************)
EXTENDS Integers, Sequences, FiniteSets, TLC

VARIABLES
    schema_file,  \* data/master_schema.json: [exists, tables: name -> definition]
    files,        \* data/<name>.json of the data tables: name -> JSON text
    tmp_files,    \* data/<name>.json.tmp: name -> JSON text written so far
    indexes,      \* IndexEngine.indexes: name -> (key -> row)
    ret,          \* outcome of the last call: [op, table, err, count, rows]
    snap,         \* history: engine state right before the last successful create_table
    written,      \* history: name -> rows handed to the last successful write_table
    calls         \* thread -> the locals of its call in progress

vars == <<schema_file, files, tmp_files, indexes, ret, snap, written, calls>>

-----------------------------------------------------------------------------
(* Bounds *)

MaxRows == 2      \* longest row sequence insert_row extends, and write_table is handed

-----------------------------------------------------------------------------
(* Python values: tagged so that int, float, str and bool stay distinct.    *)
(* A float carries its value in halves (FloatV(3) is 1.5, FloatV(2) is 1.0).*)

IntV(n) == [ty |-> "int", v |-> n]
FloatV(h) == [ty |-> "float", halves |-> h]
StrV(s) == [ty |-> "str", s |-> s]
BoolV(b) == [ty |-> "bool", b |-> b]
NoneV == [ty |-> "none"]

\* primary_key = None in a table definition
NoPk == "None"

Numeric(v) == v.ty \in {"int", "float", "bool"}

NumHalves(v) ==
    CASE v.ty = "int" -> 2 * v.v
      [] v.ty = "float" -> v.halves
      [] v.ty = "bool" -> IF v.b THEN 2 ELSE 0

\* Python ==: numbers compare by value across int, float and bool
PyEq(a, b) ==
    IF Numeric(a) /\ Numeric(b) THEN NumHalves(a) = NumHalves(b) ELSE a = b

\* the dict key a value hashes to: equal values share one key
Key(v) ==
    IF Numeric(v)
    THEN IF NumHalves(v) % 2 = 0 THEN IntV(NumHalves(v) \div 2) ELSE FloatV(NumHalves(v))
    ELSE v

\* dict.get(col): None when the column is absent
Get(row, col) == IF col \in DOMAIN row THEN row[col] ELSE NoneV

\* a dict without one key, and a dict with one key (re)bound
Without(f, k) == [x \in DOMAIN f \ {k} |-> f[x]]
With(f, k, v) == [x \in DOMAIN f \cup {k} |-> IF x = k THEN v ELSE f[x]]

EmptyDict == [x \in {} |-> NoneV]

-----------------------------------------------------------------------------
(* json.dump / json.load of a row list *)

\* a dump that writes a float without fraction as an integer literal
json_dump_value_integral(v) ==
    CASE v.ty = "bool" -> [json |-> IF v.b THEN "true" ELSE "false"]
      [] v.ty = "int" -> [json |-> "integer", digits |-> v.v]
      [] v.ty = "float" -> IF v.halves % 2 = 0
                           THEN [json |-> "integer", digits |-> v.halves \div 2]
                           ELSE [json |-> "real", halves |-> v.halves]
      [] v.ty = "str" -> [json |-> "string", chars |-> v.s]
      [] v.ty = "none" -> [json |-> "null"]

json_dump_value(v) ==
    CASE v.ty = "bool" -> [json |-> IF v.b THEN "true" ELSE "false"]
      [] v.ty = "int" -> [json |-> "integer", digits |-> v.v]
      [] v.ty = "float" -> [json |-> "real", halves |-> v.halves]
      [] v.ty = "str" -> [json |-> "string", chars |-> v.s]
      [] v.ty = "none" -> [json |-> "null"]

json_load_value(j) ==
    CASE j.json = "true" -> BoolV(TRUE)
      [] j.json = "false" -> BoolV(FALSE)
      [] j.json = "integer" -> IntV(j.digits)
      [] j.json = "real" -> FloatV(j.halves)
      [] j.json = "string" -> StrV(j.chars)
      [] j.json = "null" -> NoneV

json_dump(rows) ==
    [i \in 1..Len(rows) |-> [c \in DOMAIN rows[i] |-> json_dump_value(rows[i][c])]]

json_load(text) ==
    [i \in 1..Len(text) |-> [c \in DOMAIN text[i] |-> json_load_value(text[i][c])]]

-----------------------------------------------------------------------------
(* StorageEngine *)

\* the table name whose file path is the schema store's own path
SchemaStoreName == "master_schema"

\* os.path.exists(_get_table_path(name))
table_exists(st, name) ==
    IF name = SchemaStoreName THEN st.schema_file.exists ELSE name \in DOMAIN st.files

Ok(st) == [st |-> st, err |-> "ok", count |-> 0]
Raise(st, e) == [st |-> st, err |-> e, count |-> 0]

create_table_file(st, name) ==
    IF table_exists(st, name)
    THEN Raise(st, "FileExistsError")
    ELSE Ok([st EXCEPT !.files = With(@, name, json_dump(<<>>))])

\* [rows, err]; the schema store read as a table is a JSON object, not a list
read_table(st, name) ==
    IF ~table_exists(st, name) THEN [rows |-> <<>>, err |-> "FileNotFoundError"]
    ELSE IF name = SchemaStoreName THEN [rows |-> <<>>, err |-> "CorruptionError"]
    ELSE [rows |-> json_load(st.files[name]), err |-> "ok"]

\* open(temp_path, 'w'): the temporary file exists and is empty
write_open(st, name) == [st EXCEPT !.tmp_files = With(@, name, <<>>)]

\* a json.dump that writes to the table's own file instead of the temporary one
write_dump_in_place(st, name, rows, n) ==
    [st EXCEPT !.tmp_files = With(@, name, SubSeq(json_dump(rows), 1, n)),
               !.files = With(@, name, SubSeq(json_dump(rows), 1, n))]

\* json.dump(rows, f) as far as the first n rows
write_dump(st, name, rows, n) ==
    [st EXCEPT !.tmp_files = With(@, name, SubSeq(json_dump(rows), 1, n))]

\* os.replace(temp_path, table_path)
write_replace(st, name) ==
    [st EXCEPT !.files = With(@, name, st.tmp_files[name]),
               !.tmp_files = Without(@, name)]

\* the except branch: remove the temporary file if it exists
write_cleanup(st, name) == [st EXCEPT !.tmp_files = Without(@, name)]

\* a write_table whose except branch raises without removing the temporary file
write_table_no_cleanup(st, name, rows, fault) ==
    LET opened == write_open(st, name)
        dumped == write_dump(opened, name, rows, Len(rows))
    IN  CASE fault = "write_open" -> Raise(st, "IOError")
          [] fault = "write_dump" ->
                Raise(write_dump(opened, name, rows, Len(rows) \div 2), "IOError")
          [] fault = "write_table" -> Raise(dumped, "IOError")
          [] OTHER -> Ok(write_replace(dumped, name))

\* fault names the step of write_table that raises:
\*   "write_open"   open(temp_path, 'w'),
\*   "write_dump"   json.dump, after part of the rows was written,
\*   "write_table"  os.replace
write_table(st, name, rows, fault) ==
    LET opened == write_open(st, name)
        dumped == write_dump(opened, name, rows, Len(rows))
    IN  CASE fault = "write_open" -> Raise(write_cleanup(st, name), "IOError")
          [] fault = "write_dump" ->
                Raise(write_cleanup(write_dump(opened, name, rows, Len(rows) \div 2), name),
                      "IOError")
          [] fault = "write_table" -> Raise(write_cleanup(dumped, name), "IOError")
          [] OTHER -> Ok(write_replace(dumped, name))

delete_table_file(st, name) ==
    IF ~table_exists(st, name) THEN Raise(st, "FileNotFoundError")
    ELSE IF name = SchemaStoreName
    THEN Ok([st EXCEPT !.schema_file = [exists |-> FALSE, tables |-> EmptyDict]])
    ELSE Ok([st EXCEPT !.files = Without(@, name)])

-----------------------------------------------------------------------------
(* SchemaManager *)

valid_types == {"Int", "String", "Float", "Bool"}

\* fault = "save_schema": writing the temporary file or os.replace raises
save_schema(st, tables, fault) ==
    IF fault = "save_schema"
    THEN Raise(st, "IOError")
    ELSE Ok([st EXCEPT !.schema_file = [exists |-> TRUE, tables |-> tables]])

\* a create_table_schema that does not look for an existing entry
create_table_schema_overwrites(st, name, columns, primary_key, fault) ==
    IF ~st.schema_file.exists THEN Raise(st, "FileNotFoundError")
    ELSE IF primary_key # NoPk /\ primary_key \notin DOMAIN columns
         THEN Raise(st, "InvalidDefinition")
    ELSE IF \E c \in DOMAIN columns : columns[c] \notin valid_types
         THEN Raise(st, "InvalidDefinition")
    ELSE save_schema(st,
                     With(st.schema_file.tables, name,
                          [columns |-> columns, primary_key |-> primary_key]),
                     fault)

create_table_schema(st, name, columns, primary_key, fault) ==
    IF ~st.schema_file.exists THEN Raise(st, "FileNotFoundError")
    ELSE IF name \in DOMAIN st.schema_file.tables THEN Raise(st, "AlreadyExists")
    ELSE IF primary_key # NoPk /\ primary_key \notin DOMAIN columns
         THEN Raise(st, "InvalidDefinition")
    ELSE IF \E c \in DOMAIN columns : columns[c] \notin valid_types
         THEN Raise(st, "InvalidDefinition")
    ELSE save_schema(st,
                     With(st.schema_file.tables, name,
                          [columns |-> columns, primary_key |-> primary_key]),
                     fault)

\* "ok" when the table has a schema entry, else the error get_table_schema raises
get_table_schema_err(st, name) ==
    IF ~st.schema_file.exists THEN "FileNotFoundError"
    ELSE IF name \notin DOMAIN st.schema_file.tables THEN "NotFoundError"
    ELSE "ok"

drop_table_schema(st, name, fault) ==
    IF get_table_schema_err(st, name) # "ok" THEN Raise(st, get_table_schema_err(st, name))
    ELSE save_schema(st, Without(st.schema_file.tables, name), fault)

\* an Int check written as isinstance(value, (int, float))
type_matches_loose(expected_type, value) ==
    CASE expected_type = "Int" -> value.ty \in {"int", "float"}
      [] expected_type = "String" -> value.ty = "str"
      [] expected_type = "Float" -> value.ty \in {"int", "float"}
      [] expected_type = "Bool" -> value.ty = "bool"
      [] OTHER -> TRUE

type_matches(expected_type, value) ==
    CASE expected_type = "Int" -> value.ty = "int"
      [] expected_type = "String" -> value.ty = "str"
      [] expected_type = "Float" -> value.ty \in {"int", "float"}
      [] expected_type = "Bool" -> value.ty = "bool"
      [] OTHER -> TRUE

\* a validate_row without the check for undeclared columns
validate_row_declared_only(columns, row) ==
    /\ \A col \in DOMAIN columns : col \in DOMAIN row
    /\ \A col \in DOMAIN columns : type_matches(columns[col], row[col])

\* TRUE when validate_row returns without raising
validate_row(columns, row) ==
    /\ \A col \in DOMAIN columns : col \in DOMAIN row
    /\ \A col \in DOMAIN row : col \in DOMAIN columns
    /\ \A col \in DOMAIN columns : type_matches(columns[col], row[col])

-----------------------------------------------------------------------------
(* IndexEngine *)

RECURSIVE build_scan(_, _, _, _)
\* the loop of build_index over rows[i..]: [index, err]
build_scan(rows, i, index, primary_key) ==
    IF i > Len(rows) THEN [index |-> index, err |-> "ok"]
    ELSE LET pk_value == Get(rows[i], primary_key) IN
         IF pk_value = NoneV THEN [index |-> index, err |-> "MissingKey"]
         ELSE IF Key(pk_value) \in DOMAIN index THEN [index |-> index, err |-> "DuplicateKey"]
         ELSE build_scan(rows, i + 1, With(index, Key(pk_value), rows[i]), primary_key)

\* a build that works on the table's index itself: a failing scan leaves it
\* with nothing
build_index_in_place(st, table_name, rows, primary_key) ==
    LET b == build_scan(rows, 1, EmptyDict, primary_key) IN
    IF b.err # "ok" THEN Raise([st EXCEPT !.indexes = With(@, table_name, EmptyDict)], b.err)
    ELSE Ok([st EXCEPT !.indexes = With(@, table_name, b.index)])

\* a scan that starts one row late
build_index_from_second(st, table_name, rows, primary_key) ==
    LET b == build_scan(rows, 2, EmptyDict, primary_key) IN
    IF b.err # "ok" THEN Raise(st, b.err)
    ELSE Ok([st EXCEPT !.indexes = With(@, table_name, b.index)])

build_index(st, table_name, rows, primary_key) ==
    LET b == build_scan(rows, 1, EmptyDict, primary_key) IN
    IF b.err # "ok" THEN Raise(st, b.err)
    ELSE Ok([st EXCEPT !.indexes = With(@, table_name, b.index)])

\* a lookup that scans the stored rows when the table has no index
lookup_or_scan(st, table_name, primary_key_value) ==
    IF table_name \notin DOMAIN st.indexes
    THEN IF /\ table_name \in DOMAIN st.files
            /\ st.schema_file.exists
            /\ table_name \in DOMAIN st.schema_file.tables
            /\ st.schema_file.tables[table_name].primary_key # NoPk
         THEN LET pk == st.schema_file.tables[table_name].primary_key
                  rows == json_load(st.files[table_name])
                  hits == { i \in 1..Len(rows) : PyEq(Get(rows[i], pk), primary_key_value) }
              IN  IF hits = {} THEN NoneV
                  ELSE rows[CHOOSE i \in hits : \A j \in hits : i <= j]
         ELSE NoneV
    ELSE IF Key(primary_key_value) \in DOMAIN st.indexes[table_name]
         THEN st.indexes[table_name][Key(primary_key_value)]
         ELSE NoneV

\* the row indexed under the key, or None
lookup(st, table_name, primary_key_value) ==
    IF table_name \notin DOMAIN st.indexes THEN NoneV
    ELSE IF Key(primary_key_value) \in DOMAIN st.indexes[table_name]
         THEN st.indexes[table_name][Key(primary_key_value)]
         ELSE NoneV

index_insert(st, table_name, row, primary_key) ==
    LET index == IF table_name \in DOMAIN st.indexes THEN st.indexes[table_name] ELSE EmptyDict
        pk_value == row[primary_key]
    IN  IF Key(pk_value) \in DOMAIN index
        THEN Raise([st EXCEPT !.indexes = With(@, table_name, index)], "DuplicateKey")
        ELSE Ok([st EXCEPT !.indexes = With(@, table_name, With(index, Key(pk_value), row))])

\* a delete that leaves the entry in the index
index_delete_nothing(st, table_name, primary_key_value) == st

index_delete(st, table_name, primary_key_value) ==
    IF table_name \in DOMAIN st.indexes
    THEN [st EXCEPT !.indexes = With(@, table_name,
                                     Without(st.indexes[table_name], Key(primary_key_value)))]
    ELSE st

\* an update that inserts under the new key and keeps the old entry
index_update_keeps_old(st, table_name, old_pk_value, new_row, primary_key) ==
    index_insert(st, table_name, new_row, primary_key)

index_update(st, table_name, old_pk_value, new_row, primary_key) ==
    index_insert(index_delete(st, table_name, old_pk_value), table_name, new_row, primary_key)

drop_index(st, table_name) ==
    IF table_name \in DOMAIN st.indexes
    THEN [st EXCEPT !.indexes = Without(@, table_name)]
    ELSE st

-----------------------------------------------------------------------------
(* ExecutionEngine: table lifecycle *)

\* fault names the I/O call that raises during this invocation:
\*   "save_schema"  the first save_schema,
\*   "rollback"     the save_schema of create_table's compensating drop,
\*   "write_table"  the write_table,
\*   "none"         no I/O call raises
\* a create_table whose handler re-raises without dropping the schema
create_table_no_rollback(st, table_name, columns, primary_key, fault) ==
    LET r1 == create_table_schema(st, table_name, columns, primary_key, fault) IN
    IF r1.err # "ok" THEN r1
    ELSE LET r2 == create_table_file(r1.st, table_name)
             r3 == IF r2.err = "ok" /\ primary_key # NoPk
                   THEN build_index(r2.st, table_name, <<>>, primary_key)
                   ELSE r2
         IN  r3

create_table(st, table_name, columns, primary_key, fault) ==
    LET r1 == create_table_schema(st, table_name, columns, primary_key, fault) IN
    IF r1.err # "ok" THEN r1
    ELSE LET r2 == create_table_file(r1.st, table_name)
             r3 == IF r2.err = "ok" /\ primary_key # NoPk
                   THEN build_index(r2.st, table_name, <<>>, primary_key)
                   ELSE r2
         IN  IF r3.err = "ok" THEN r3
             ELSE LET r4 == drop_table_schema(r3.st, table_name,
                                              IF fault = "rollback" THEN "save_schema" ELSE "none")
                  IN  IF r4.err # "ok" THEN r4 ELSE Raise(r4.st, r3.err)

\* a drop_table that leaves the index in place
drop_table_keeps_index(st, table_name, fault) ==
    LET r2 == delete_table_file(st, table_name) IN
    IF r2.err # "ok" THEN r2
    ELSE drop_table_schema(r2.st, table_name, fault)

\* a drop_table that drops the schema before the storage file
drop_table_schema_first(st, table_name, fault) ==
    LET s1 == drop_index(st, table_name)
        r2 == drop_table_schema(s1, table_name, fault)
    IN  IF r2.err # "ok" THEN r2
        ELSE delete_table_file(r2.st, table_name)

drop_table(st, table_name, fault) ==
    LET s1 == drop_index(st, table_name)
        r2 == delete_table_file(s1, table_name)
    IN  IF r2.err # "ok" THEN r2
        ELSE drop_table_schema(r2.st, table_name, fault)

load_table_index(st, table_name) ==
    IF get_table_schema_err(st, table_name) # "ok"
    THEN Raise(st, get_table_schema_err(st, table_name))
    ELSE LET primary_key == st.schema_file.tables[table_name].primary_key IN
         IF primary_key = NoPk THEN Ok(st)
         ELSE LET rd == read_table(st, table_name) IN
              IF rd.err # "ok" THEN Raise(st, rd.err)
              ELSE build_index(st, table_name, rd.rows, primary_key)

-----------------------------------------------------------------------------
(* ExecutionEngine: rows *)

\* bool(x) of a lookup result: None and the empty dict are falsy
Truthy(row) == row # NoneV /\ DOMAIN row # {}

\* a predicate is the closure  lambda row: row.get(column) <op> value
eval_where(where, row) ==
    CASE where.op = "==" -> PyEq(Get(row, where.column), where.value)
      [] where.op = "!=" -> ~PyEq(Get(row, where.column), where.value)

\* an insert that reads the table again right before it writes
insert_row_stored_reread(st, table_name, row, rows, primary_key, fault) ==
    IF primary_key # NoPk /\ Truthy(lookup(st, table_name, row[primary_key]))
    THEN Raise(st, "UniquenessViolation")
    ELSE LET w == write_table(st, table_name,
                              Append(read_table(st, table_name).rows, row), fault) IN
         IF w.err # "ok" THEN w
         ELSE IF primary_key # NoPk
              THEN index_insert(w.st, table_name, row, primary_key)
              ELSE w

\* insert_row from the uniqueness check on: rows is what read_table returned
insert_row_stored(st, table_name, row, rows, primary_key, fault) ==
    IF primary_key # NoPk /\ Truthy(lookup(st, table_name, row[primary_key]))
    THEN Raise(st, "UniquenessViolation")
    ELSE LET w == write_table(st, table_name, Append(rows, row), fault) IN
         IF w.err # "ok" THEN w
         ELSE IF primary_key # NoPk
              THEN index_insert(w.st, table_name, row, primary_key)
              ELSE w

\* insert_row as far as read_table: [rows, err]
insert_row_read(st, table_name, row) ==
    IF get_table_schema_err(st, table_name) # "ok"
    THEN [rows |-> <<>>, err |-> get_table_schema_err(st, table_name)]
    ELSE IF ~validate_row(st.schema_file.tables[table_name].columns, row)
    THEN [rows |-> <<>>, err |-> "ValidationError"]
    ELSE read_table(st, table_name)

\* an insert_row that indexes the row before writing the table
insert_row_index_first(st, table_name, row, fault) ==
    IF get_table_schema_err(st, table_name) # "ok"
    THEN Raise(st, get_table_schema_err(st, table_name))
    ELSE LET table_schema == st.schema_file.tables[table_name]
             primary_key == table_schema.primary_key
             rd == read_table(st, table_name)
         IN  IF ~validate_row(table_schema.columns, row) THEN Raise(st, "ValidationError")
             ELSE IF rd.err # "ok" THEN Raise(st, rd.err)
             ELSE IF primary_key # NoPk /\ Truthy(lookup(st, table_name, row[primary_key]))
                  THEN Raise(st, "UniquenessViolation")
             ELSE LET x == IF primary_key # NoPk
                           THEN index_insert(st, table_name, row, primary_key)
                           ELSE Ok(st)
                  IN  write_table(x.st, table_name, Append(rd.rows, row), fault)

insert_row(st, table_name, row, fault) ==
    LET rd == insert_row_read(st, table_name, row) IN
    IF rd.err # "ok" THEN Raise(st, rd.err)
    ELSE insert_row_stored(st, table_name, row, rd.rows,
                           st.schema_file.tables[table_name].primary_key, fault)

\* the columns argument: None, or a list of column names
NoColumns == [none |-> TRUE, list |-> <<>>]
Columns(list) == [none |-> FALSE, list |-> list]

\* bool(columns): None and the empty list are falsy
ColumnsTruthy(columns) == ~columns.none /\ Len(columns.list) > 0

\* where is None or a predicate; a predicate is a function object, always truthy
select_rows(st, table_name, where, columns) ==
    LET rd == read_table(st, table_name)
        kept == SelectSeq(rd.rows, LAMBDA row : where = NoneV \/ eval_where(where, row))
        requested == { columns.list[j] : j \in 1..Len(columns.list) }
    IN  IF rd.err # "ok" THEN rd
        ELSE [rows |-> IF ColumnsTruthy(columns)
                       THEN [i \in 1..Len(kept) |->
                               [col \in requested \cap DOMAIN kept[i] |-> kept[i][col]]]
                       ELSE kept,
              err |-> "ok"]

select_by_primary_key(st, table_name, pk_value) == lookup(st, table_name, pk_value)

RECURSIVE delete_scan(_, _, _, _, _, _)
\* the loop of delete_rows over rows[i..]: [st, rows_to_keep, deleted_count]
delete_scan(st, table_name, rows, i, where, primary_key) ==
    IF i > Len(rows) THEN [st |-> st, rows_to_keep |-> <<>>, deleted_count |-> 0]
    ELSE IF eval_where(where, rows[i])
    THEN LET s1 == IF primary_key # NoPk
                   THEN index_delete(st, table_name, rows[i][primary_key])
                   ELSE st
             rest == delete_scan(s1, table_name, rows, i + 1, where, primary_key)
         IN  [rest EXCEPT !.deleted_count = @ + 1]
    ELSE LET rest == delete_scan(st, table_name, rows, i + 1, where, primary_key) IN
         [rest EXCEPT !.rows_to_keep = <<rows[i]>> \o @]

delete_rows(st, table_name, where, fault) ==
    LET rd == read_table(st, table_name) IN
    IF rd.err # "ok" THEN Raise(st, rd.err)
    ELSE IF get_table_schema_err(st, table_name) # "ok"
         THEN Raise(st, get_table_schema_err(st, table_name))
    ELSE LET primary_key == st.schema_file.tables[table_name].primary_key
             d == delete_scan(st, table_name, rd.rows, 1, where, primary_key)
             w == write_table(d.st, table_name, d.rows_to_keep, fault)
         IN  [w EXCEPT !.count = IF w.err = "ok" THEN d.deleted_count ELSE 0]

\* an update that leaves the row as it is
apply_updates_none(row, updates) == row

\* for col, value in updates.items(): if col in row: row[col] = value
apply_updates(row, updates) ==
    [col \in DOMAIN row |-> IF col \in DOMAIN updates THEN updates[col] ELSE row[col]]

RECURSIVE update_scan(_, _, _, _, _, _, _, _)
\* the loop of update_rows over rows[i..]: [st, rows, updated_count, err]
update_scan(st, table_name, rows, i, where, updates, columns, primary_key) ==
    IF i > Len(rows) THEN [st |-> st, rows |-> rows, updated_count |-> 0, err |-> "ok"]
    ELSE IF ~eval_where(where, rows[i])
    THEN update_scan(st, table_name, rows, i + 1, where, updates, columns, primary_key)
    ELSE LET old_pk == IF primary_key # NoPk THEN Get(rows[i], primary_key) ELSE NoneV
             row == apply_updates(rows[i], updates)
             rows1 == [rows EXCEPT ![i] = row]
         IN  IF ~validate_row(columns, row)
             THEN [st |-> st, rows |-> rows1, updated_count |-> 0, err |-> "ValidationError"]
             ELSE LET r == IF primary_key # NoPk /\ ~PyEq(old_pk, row[primary_key])
                           THEN index_update(st, table_name, old_pk, row, primary_key)
                           ELSE Ok(st)
                  IN  IF r.err # "ok"
                      THEN [st |-> r.st, rows |-> rows1, updated_count |-> 0, err |-> r.err]
                      ELSE LET rest == update_scan(r.st, table_name, rows1, i + 1, where,
                                                   updates, columns, primary_key)
                           IN  [rest EXCEPT !.updated_count = @ + 1]

\* an update_rows that persists the rows as far as they were changed when a
\* row fails validation
update_rows_writes_partial(st, table_name, where, updates, fault) ==
    LET rd == read_table(st, table_name) IN
    IF rd.err # "ok" THEN Raise(st, rd.err)
    ELSE IF get_table_schema_err(st, table_name) # "ok"
         THEN Raise(st, get_table_schema_err(st, table_name))
    ELSE LET table_schema == st.schema_file.tables[table_name]
             u == update_scan(st, table_name, rd.rows, 1, where, updates,
                              table_schema.columns, table_schema.primary_key)
         IN  IF u.err # "ok"
             THEN Raise(write_table(u.st, table_name, u.rows, fault).st, u.err)
             ELSE LET w == write_table(u.st, table_name, u.rows, fault) IN
                  [w EXCEPT !.count = IF w.err = "ok" THEN u.updated_count ELSE 0]

update_rows(st, table_name, where, updates, fault) ==
    LET rd == read_table(st, table_name) IN
    IF rd.err # "ok" THEN Raise(st, rd.err)
    ELSE IF get_table_schema_err(st, table_name) # "ok"
         THEN Raise(st, get_table_schema_err(st, table_name))
    ELSE LET table_schema == st.schema_file.tables[table_name]
             u == update_scan(st, table_name, rd.rows, 1, where, updates,
                              table_schema.columns, table_schema.primary_key)
         IN  IF u.err # "ok" THEN Raise(u.st, u.err)
             ELSE LET w == write_table(u.st, table_name, u.rows, fault) IN
                  [w EXCEPT !.count = IF w.err = "ok" THEN u.updated_count ELSE 0]

-----------------------------------------------------------------------------
\* {**left_row, **right_row}
merge_rows(left_row, right_row) ==
    [col \in DOMAIN left_row \cup DOMAIN right_row |->
        IF col \in DOMAIN right_row THEN right_row[col] ELSE left_row[col]]

RECURSIVE join_scan(_, _, _, _, _)
\* the two loops of nested_loop_join from the pair (i, j) on
join_scan(left_rows, right_rows, i, j, on_column) ==
    IF i > Len(left_rows) THEN <<>>
    ELSE IF j > Len(right_rows) THEN join_scan(left_rows, right_rows, i + 1, 1, on_column)
    ELSE IF PyEq(Get(left_rows[i], on_column), Get(right_rows[j], on_column))
         THEN <<merge_rows(left_rows[i], right_rows[j])>>
              \o join_scan(left_rows, right_rows, i, j + 1, on_column)
         ELSE join_scan(left_rows, right_rows, i, j + 1, on_column)

\* [rows, err]
nested_loop_join(st, left_table, right_table, on_column) ==
    LET left == read_table(st, left_table)
        right == read_table(st, right_table)
    IN  IF left.err # "ok" THEN left
        ELSE IF right.err # "ok" THEN right
        ELSE [rows |-> join_scan(left.rows, right.rows, 1, 1, on_column), err |-> "ok"]

-----------------------------------------------------------------------------
(* Inputs of the calls *)

\* the data tables, and every name a call may pass
DataTables == {"t"}
TableNames == DataTables \cup {SchemaStoreName}

UsersColumns == [id |-> "Int", name |-> "String"]

Definitions ==
    { [columns |-> UsersColumns, primary_key |-> "id"],
      [columns |-> UsersColumns, primary_key |-> NoPk],
      [columns |-> UsersColumns, primary_key |-> "email"],
      [columns |-> [id |-> "Int", name |-> "Text"], primary_key |-> "id"] }

ValidRows ==
    { [id |-> IntV(i), name |-> StrV(n)] : i \in {1, 2}, n \in {"a", "z"} }

RowInputs ==
    { [id |-> IntV(1), name |-> StrV("a")],
      [id |-> IntV(2), name |-> StrV("a")],
      [id |-> IntV(1), name |-> StrV("z")],
      [id |-> IntV(1)],
      [id |-> IntV(1), name |-> StrV("a"), email |-> StrV("a")],
      [id |-> FloatV(3), name |-> StrV("a")] }

WhereInputs ==
    { [column |-> "id", op |-> "==", value |-> IntV(1)],
      [column |-> "name", op |-> "==", value |-> StrV("a")],
      [column |-> "id", op |-> "!=", value |-> IntV(0)] }

UpdateInputs ==
    { [name |-> StrV("z")],
      [id |-> IntV(2)],
      [id |-> FloatV(3)],
      [email |-> StrV("a")] }

KeyInputs == {IntV(1), IntV(2), IntV(3), FloatV(2), StrV("a")}

-----------------------------------------------------------------------------
(* The state machine *)

State ==
    [schema_file |-> schema_file, files |-> files, tmp_files |-> tmp_files,
     indexes |-> indexes]

\* StorageEngine(), SchemaManager(), ExecutionEngine(storage, schema) on an empty data directory
InitState ==
    [schema_file |-> [exists |-> TRUE, tables |-> EmptyDict],
     files |-> EmptyDict,
     tmp_files |-> EmptyDict,
     indexes |-> EmptyDict]

NoSnap == [valid |-> FALSE, table |-> "", st |-> InitState]

Outcome(op, table_name, r) ==
    [op |-> op, table |-> table_name, err |-> r.err, count |-> r.count, rows |-> <<>>]

\* the request threads of the web server
Threads == {1, 2}

\* a thread that is not inside a call
IdleCall ==
    [pc |-> "idle", table |-> "", row |-> NoneV, rows |-> <<>>, n |-> 0,
     text |-> <<>>, before |-> <<>>]

NoCalls == [th \in Threads |-> IdleCall]

\* the engines' state after a step of a call in progress
Store(st) ==
    /\ schema_file' = st.schema_file
    /\ files' = st.files
    /\ tmp_files' = st.tmp_files
    /\ indexes' = st.indexes

\* a call that runs from entry to return with no other thread in between
Apply(r) ==
    /\ Store(r.st)
    /\ UNCHANGED calls

Init ==
    /\ schema_file = InitState.schema_file
    /\ files = InitState.files
    /\ tmp_files = InitState.tmp_files
    /\ indexes = InitState.indexes
    /\ ret = [op |-> "init", table |-> "", err |-> "ok", count |-> 0, rows |-> <<>>]
    /\ snap = NoSnap
    /\ written = EmptyDict
    /\ calls = NoCalls

CreateTable(table_name, definition, fault) ==
    LET r == create_table(State, table_name, definition.columns, definition.primary_key, fault) IN
    /\ Apply(r)
    /\ ret' = Outcome("create_table", table_name, r)
    /\ snap' = IF r.err = "ok" THEN [valid |-> TRUE, table |-> table_name, st |-> State] ELSE NoSnap
    /\ UNCHANGED written

DropTable(table_name, fault) ==
    LET r == drop_table(State, table_name, fault) IN
    /\ Apply(r)
    /\ ret' = Outcome("drop_table", table_name, r)
    /\ snap' = IF snap.valid /\ snap.table = table_name /\ ret.op = "create_table"
               THEN snap ELSE NoSnap
    /\ UNCHANGED written

LoadTableIndex(table_name) ==
    LET r == load_table_index(State, table_name) IN
    /\ Apply(r)
    /\ ret' = Outcome("load_table_index", table_name, r)
    /\ snap' = NoSnap
    /\ UNCHANGED written

InsertRow(table_name, row, fault) ==
    LET r == insert_row(State, table_name, row, fault) IN
    /\ table_name \in DOMAIN files => Len(files[table_name]) < MaxRows
    /\ Apply(r)
    /\ ret' = Outcome("insert_row", table_name, r)
    /\ snap' = NoSnap
    /\ UNCHANGED written

UpdateRows(table_name, where, updates, fault) ==
    LET r == update_rows(State, table_name, where, updates, fault) IN
    /\ Apply(r)
    /\ ret' = Outcome("update_rows", table_name, r)
    /\ snap' = NoSnap
    /\ UNCHANGED written

DeleteRows(table_name, where, fault) ==
    LET r == delete_rows(State, table_name, where, fault) IN
    /\ Apply(r)
    /\ ret' = Outcome("delete_rows", table_name, r)
    /\ snap' = NoSnap
    /\ UNCHANGED written

\* a new process: the engines are constructed again over the same data directory
Restart ==
    /\ schema_file' = IF schema_file.exists THEN schema_file
                      ELSE [exists |-> TRUE, tables |-> EmptyDict]
    /\ indexes' = EmptyDict
    /\ ret' = [op |-> "restart", table |-> "", err |-> "ok", count |-> 0, rows |-> <<>>]
    /\ snap' = NoSnap
    /\ UNCHANGED <<files, tmp_files, written, calls>>

UsersDefinition == [columns |-> UsersColumns, primary_key |-> "id"]

\* the calls on a data table, with every input
DataCall(table_name) ==
    \/ \E definition \in Definitions, fault \in {"none", "save_schema", "rollback"} :
            CreateTable(table_name, definition, fault)
    \/ \E fault \in {"none", "save_schema"} : DropTable(table_name, fault)
    \/ LoadTableIndex(table_name)
    \/ \E row \in RowInputs, fault \in {"none", "write_table"} :
            InsertRow(table_name, row, fault)
    \/ \E where \in WhereInputs, updates \in UpdateInputs, fault \in {"none", "write_table"} :
            UpdateRows(table_name, where, updates, fault)
    \/ \E where \in WhereInputs, fault \in {"none", "write_table"} :
            DeleteRows(table_name, where, fault)

\* the calls that name the schema store as their table, one input each
StoreCall ==
    \/ \E fault \in {"none", "rollback"} :
            CreateTable(SchemaStoreName, UsersDefinition, fault)
    \/ DropTable(SchemaStoreName, "none")
    \/ LoadTableIndex(SchemaStoreName)
    \/ InsertRow(SchemaStoreName, [id |-> IntV(1), name |-> StrV("a")], "none")
    \/ UpdateRows(SchemaStoreName, [column |-> "id", op |-> "==", value |-> IntV(1)],
                  [name |-> StrV("z")], "none")
    \/ DeleteRows(SchemaStoreName, [column |-> "id", op |-> "==", value |-> IntV(1)], "none")

Next ==
    \/ \E table_name \in DataTables : DataCall(table_name)
    \/ StoreCall
    \/ Restart

Spec == Init /\ [][Next]_vars

-----------------------------------------------------------------------------
(* The StorageEngine on its own: callers hand write_table any row list *)

StoredRows ==
    { [id |-> IntV(1), name |-> StrV("a")],
      [id |-> FloatV(2), name |-> StrV("1")],
      [id |-> FloatV(3), flag |-> BoolV(TRUE)],
      [id |-> BoolV(TRUE), name |-> StrV("true")],
      [id |-> IntV(0), flag |-> BoolV(FALSE), note |-> NoneV] }

RowSeqs == UNION { [1..k -> StoredRows] : k \in 0..MaxRows }

StorageCreate(name) ==
    LET r == create_table_file(State, name) IN
    /\ Apply(r)
    /\ ret' = Outcome("create_table_file", name, r)
    /\ written' = IF r.err = "ok" THEN Without(written, name) ELSE written
    /\ UNCHANGED snap

StorageWrite(name, rows, fault) ==
    LET r == write_table(State, name, rows, fault) IN
    /\ Apply(r)
    /\ ret' = Outcome("write_table", name, r)
    /\ written' = IF r.err = "ok" THEN With(written, name, rows) ELSE written
    /\ UNCHANGED snap

StorageRead(name) ==
    LET rd == read_table(State, name) IN
    /\ ret' = [op |-> "read_table", table |-> name, err |-> rd.err, count |-> 0,
               rows |-> rd.rows]
    /\ UNCHANGED <<schema_file, files, tmp_files, indexes, snap, written, calls>>

StorageDelete(name) ==
    LET r == delete_table_file(State, name) IN
    /\ Apply(r)
    /\ ret' = Outcome("delete_table_file", name, r)
    /\ written' = IF r.err = "ok" THEN Without(written, name) ELSE written
    /\ UNCHANGED snap

StorageNames == {"t"}

WriteFaults == {"none", "write_open", "write_dump", "write_table"}

NextStorage ==
    \E name \in StorageNames :
        \/ StorageCreate(name)
        \/ \E rows \in RowSeqs, fault \in WriteFaults : StorageWrite(name, rows, fault)
        \/ StorageRead(name)
        \/ StorageDelete(name)

SpecStorage == Init /\ [][NextStorage]_vars

-----------------------------------------------------------------------------
(* A read_table on one thread while a write_table runs on another.  The     *)
(* write is taken statement by statement.  A file text that holds the first *)
(* n rows of a longer list stands for the unterminated text json.dump has   *)
(* produced so far.  The read opens the file and then loads what it opened: *)
(* the open file is the one the path named at that moment, and os.replace   *)
(* makes the path name another file without touching the open one.          *)

Writer == 1
Reader == 2

ConcRows ==
    { [id |-> IntV(1), name |-> StrV("a")],
      [id |-> FloatV(2), name |-> StrV("1")] }

ConcSeqs == UNION { [1..k -> ConcRows] : k \in 0..MaxRows }

\* write_table up to open(temp_path, 'w'), over an existing table; a thread
\* starts its next write once the reads of the previous one have returned
WriteBegin(th, name, rows) ==
    /\ \/ calls[th].pc = "idle"
       \/ calls[th].pc = "done" /\ calls[Reader].pc # "load"
    /\ table_exists(State, name)
    /\ Store(write_open(State, name))
    /\ calls' = [calls EXCEPT ![th] =
                    [IdleCall EXCEPT !.pc = "dump", !.table = name, !.rows = rows,
                                     !.before = json_load(files[name])]]
    /\ UNCHANGED <<ret, snap, written>>

\* json.dump writes one more row to the temporary file
WriteDump(th) ==
    LET c == calls[th] IN
    /\ c.pc = "dump" /\ c.n < Len(c.rows)
    /\ Store(write_dump(State, c.table, c.rows, c.n + 1))
    /\ calls' = [calls EXCEPT ![th].n = c.n + 1]
    /\ UNCHANGED <<ret, snap, written>>

\* os.replace, and write_table returns
WriteReplace(th) ==
    LET c == calls[th] IN
    /\ c.pc = "dump" /\ c.n = Len(c.rows)
    /\ Store(write_replace(State, c.table))
    /\ calls' = [calls EXCEPT ![th].pc = "done"]
    /\ ret' = [op |-> "write_table", table |-> c.table, err |-> "ok", count |-> 0,
               rows |-> <<>>]
    /\ written' = With(written, c.table, c.rows)
    /\ UNCHANGED snap

\* json.dump or os.replace raises: the except branch
WriteFail(th) ==
    LET c == calls[th] IN
    /\ c.pc = "dump"
    /\ Store(write_cleanup(State, c.table))
    /\ calls' = [calls EXCEPT ![th].pc = "done", ![th].rows = c.before]
    /\ ret' = [op |-> "write_table", table |-> c.table, err |-> "IOError", count |-> 0,
               rows |-> <<>>]
    /\ UNCHANGED <<snap, written>>

\* read_table up to open(table_path, 'r'); n records, as history, how many rows
\* the writer's json.dump had produced at that moment
ReadOpen(th, name) ==
    /\ calls[th].pc # "load"
    /\ IF table_exists(State, name)
       THEN /\ calls' = [calls EXCEPT ![th] =
                            [IdleCall EXCEPT !.pc = "load", !.table = name,
                                             !.text = files[name],
                                             !.n = IF calls[Writer].pc = "dump"
                                                   THEN calls[Writer].n ELSE 0 - 1]]
            /\ UNCHANGED ret
       ELSE /\ ret' = [op |-> "read_table", table |-> name, err |-> "FileNotFoundError",
                       count |-> 0, rows |-> <<>>]
            /\ UNCHANGED calls
    /\ UNCHANGED <<schema_file, files, tmp_files, indexes, snap, written>>

\* json.load of the open file, and read_table returns
ReadLoad(th) ==
    LET c == calls[th]
        rd == read_table([State EXCEPT !.files = With(@, c.table, c.text)], c.table)
    IN  /\ c.pc = "load"
        /\ ret' = [op |-> "read_table", table |-> c.table, err |-> rd.err, count |-> 0,
                   rows |-> rd.rows]
        /\ calls' = [calls EXCEPT ![th].pc = "done"]
        /\ UNCHANGED <<schema_file, files, tmp_files, indexes, snap, written>>

\* the table file is created before the threads start
ConcCreate(name) ==
    /\ calls = NoCalls
    /\ StorageCreate(name)

NextReadDuringWrite ==
    \/ \E name \in StorageNames :
        \/ ConcCreate(name)
        \/ \E rows \in ConcSeqs : WriteBegin(Writer, name, rows)
        \/ ReadOpen(Reader, name)
    \/ WriteDump(Writer)
    \/ WriteReplace(Writer)
    \/ WriteFail(Writer)
    \/ ReadLoad(Reader)

SpecReadDuringWrite == Init /\ [][NextReadDuringWrite]_vars

-----------------------------------------------------------------------------
(* Two insert_row calls on two request threads of the web server.  Each     *)
(* call is cut once, between read_table and the uniqueness check: a thread  *)
(* switch there is one of the switches the interpreter can make.            *)

\* the table is created before the threads start
RaceCreate(table_name) ==
    /\ calls = NoCalls
    /\ CreateTable(table_name, UsersDefinition, "none")

\* insert_row through read_table
InsertRead(th, table_name, row) ==
    LET rd == insert_row_read(State, table_name, row) IN
    /\ calls[th].pc # "check"
    /\ table_name \in DOMAIN files => Len(files[table_name]) < MaxRows
    /\ IF rd.err = "ok"
       THEN /\ calls' = [calls EXCEPT ![th] =
                            [IdleCall EXCEPT !.pc = "check", !.table = table_name,
                                             !.row = row, !.rows = rd.rows]]
            /\ UNCHANGED ret
       ELSE /\ calls' = [calls EXCEPT ![th] =
                            [IdleCall EXCEPT !.pc = "raised", !.table = table_name,
                                             !.row = row]]
            /\ ret' = [op |-> "insert_row", table |-> table_name, err |-> rd.err,
                       count |-> 0, rows |-> <<>>]
    /\ UNCHANGED <<schema_file, files, tmp_files, indexes, snap, written>>

\* the rest of insert_row: uniqueness check, append, write_table, index insert
InsertStore(th, fault) ==
    LET c == calls[th]
        r == insert_row_stored(State, c.table, c.row, c.rows,
                               schema_file.tables[c.table].primary_key, fault)
    IN  /\ c.pc = "check"
        /\ Store(r.st)
        /\ ret' = Outcome("insert_row", c.table, r)
        /\ calls' = [calls EXCEPT ![th].pc = IF r.err = "ok" THEN "returned" ELSE "raised"]
        /\ UNCHANGED <<snap, written>>

NextInsertRace ==
    \/ \E table_name \in DataTables : RaceCreate(table_name)
    \/ \E th \in Threads, table_name \in DataTables, row \in ValidRows :
            InsertRead(th, table_name, row)
    \/ \E th \in Threads, fault \in {"none", "write_table"} : InsertStore(th, fault)

SpecInsertRace == Init /\ [][NextInsertRace]_vars

-----------------------------------------------------------------------------
(* validate_row on its own: a table of any declared columns, any row *)

ColumnNames == {"a", "b"}

\* the column declarations create_table_schema accepts
ColumnSets == UNION { [cols -> valid_types] : cols \in SUBSET ColumnNames }

CellValues == {IntV(1), FloatV(2), FloatV(3), StrV("x"), BoolV(TRUE), NoneV}

AnyRows == UNION { [cols -> CellValues] : cols \in SUBSET ColumnNames }

\* the state after create_table(t, columns) on an empty data directory
InitValidate ==
    /\ \E columns \in ColumnSets, t \in DataTables :
          /\ schema_file = [exists |-> TRUE,
                            tables |-> With(EmptyDict, t,
                                            [columns |-> columns, primary_key |-> NoPk])]
          /\ files = With(EmptyDict, t, <<>>)
          /\ indexes = With(EmptyDict, t, EmptyDict)
    /\ tmp_files = EmptyDict
    /\ ret = [op |-> "create_table", table |-> "t", err |-> "ok", count |-> 0, rows |-> <<>>]
    /\ snap = NoSnap
    /\ written = EmptyDict
    /\ calls = NoCalls

\* SchemaManager.validate_row(table_name, row); ret.rows holds the row given
ValidateRow(table_name, row) ==
    /\ ret' = [op |-> "validate_row", table |-> table_name,
               err |-> IF get_table_schema_err(State, table_name) # "ok"
                       THEN get_table_schema_err(State, table_name)
                       ELSE IF validate_row(schema_file.tables[table_name].columns, row)
                            THEN "ok" ELSE "ValidationError",
               count |-> 0, rows |-> <<row>>]
    /\ UNCHANGED <<schema_file, files, tmp_files, indexes, snap, written, calls>>

NextValidate == \E table_name \in DataTables, row \in AnyRows : ValidateRow(table_name, row)

SpecValidate == InitValidate /\ [][NextValidate]_vars

-----------------------------------------------------------------------------
(* nested_loop_join over two tables of the same columns *)

JoinTables == {"t", "u"}

JoinColumns == {"id", "name", "email"}

\* the row lists insert_row can have stored: validated rows of distinct keys
JoinSeqs ==
    { rows \in UNION { [1..k -> ValidRows] : k \in 0..MaxRows } :
        \A i, j \in 1..Len(rows) : i # j => ~PyEq(rows[i].id, rows[j].id) }

\* a new process over a data directory that holds the two tables
InitJoin ==
    /\ schema_file = [exists |-> TRUE, tables |-> [t \in JoinTables |-> UsersDefinition]]
    /\ \E left_rows \in JoinSeqs, right_rows \in JoinSeqs :
          files = [t \in JoinTables |->
                      json_dump(IF t = "t" THEN left_rows ELSE right_rows)]
    /\ tmp_files = EmptyDict
    /\ indexes = EmptyDict
    /\ ret = [op |-> "restart", table |-> "", err |-> "ok", count |-> 0, rows |-> <<>>]
    /\ snap = NoSnap
    /\ written = EmptyDict
    /\ calls = NoCalls

NestedLoopJoin(left_table, right_table, on_column) ==
    LET r == nested_loop_join(State, left_table, right_table, on_column) IN
    /\ ret' = [op |-> "nested_loop_join", table |-> left_table, err |-> r.err,
               count |-> 0, rows |-> r.rows]
    /\ UNCHANGED <<schema_file, files, tmp_files, indexes, snap, written, calls>>

NextJoin ==
    \E left_table \in JoinTables, right_table \in JoinTables, on_column \in JoinColumns :
        NestedLoopJoin(left_table, right_table, on_column)

SpecJoin == InitJoin /\ [][NextJoin]_vars

-----------------------------------------------------------------------------
(* The read-only calls over the two tables, and a table that does not exist *)

QueryTables == JoinTables \cup {"v"}

ColumnInputs ==
    { NoColumns, Columns(<<>>), Columns(<<"name">>), Columns(<<"id", "email">>) }

QueryWheres == WhereInputs \cup {NoneV}

SelectRows(table_name, where, columns) ==
    LET r == select_rows(State, table_name, where, columns) IN
    /\ ret' = [op |-> "select_rows", table |-> table_name, err |-> r.err,
               count |-> 0, rows |-> r.rows]
    /\ UNCHANGED <<schema_file, files, tmp_files, indexes, snap, written, calls>>

\* a lookup written with self.indexes.setdefault(table_name, {}): asking for a
\* key of a table without an index gives the table an empty one
SelectByPrimaryKey_setdefault(table_name, pk_value) ==
    LET r == select_by_primary_key(State, table_name, pk_value) IN
    /\ ret' = [op |-> "select_by_primary_key", table |-> table_name, err |-> "ok",
               count |-> 0, rows |-> IF r = NoneV THEN <<>> ELSE <<r>>]
    /\ indexes' = IF table_name \in DOMAIN indexes THEN indexes
                  ELSE With(indexes, table_name, EmptyDict)
    /\ UNCHANGED <<schema_file, files, tmp_files, snap, written, calls>>

\* ret.rows holds the row returned, and nothing for None
SelectByPrimaryKey(table_name, pk_value) ==
    LET r == select_by_primary_key(State, table_name, pk_value) IN
    /\ ret' = [op |-> "select_by_primary_key", table |-> table_name, err |-> "ok",
               count |-> 0, rows |-> IF r = NoneV THEN <<>> ELSE <<r>>]
    /\ UNCHANGED <<schema_file, files, tmp_files, indexes, snap, written, calls>>

NextQuery ==
    \/ \E table_name \in QueryTables, where \in QueryWheres, columns \in ColumnInputs :
            SelectRows(table_name, where, columns)
    \/ \E table_name \in QueryTables, pk_value \in KeyInputs :
            SelectByPrimaryKey(table_name, pk_value)
    \/ \E left_table \in QueryTables, right_table \in QueryTables, on_column \in JoinColumns :
            NestedLoopJoin(left_table, right_table, on_column)
    \/ \E table_name \in QueryTables : LoadTableIndex(table_name)

\* the second table holds one row
InitQuery ==
    /\ InitJoin
    /\ json_load(files["u"]) = <<[id |-> IntV(1), name |-> StrV("a")]>>

SpecQuery == InitQuery /\ [][NextQuery]_vars

-----------------------------------------------------------------------------
(* Two tables side by side, and the schema store's own name *)

FrameTables == {"t", "u"}

\* the names the calls under study are made with, next to the table "u"
FrameNames == {"t", SchemaStoreName}

FrameRow == [id |-> IntV(1), name |-> StrV("a")]

FrameWhere == [column |-> "id", op |-> "==", value |-> IntV(1)]

FrameUpdates == { [id |-> IntV(2)], [name |-> StrV("z")] }

NextFrame ==
    \/ \E table_name \in FrameNames :
        \/ \E fault \in {"none", "rollback"} : CreateTable(table_name, UsersDefinition, fault)
        \/ \E fault \in {"none", "save_schema"} : DropTable(table_name, fault)
        \/ LoadTableIndex(table_name)
        \/ \E fault \in {"none", "write_table"} : InsertRow(table_name, FrameRow, fault)
        \/ \E updates \in FrameUpdates, fault \in {"none", "write_table"} :
                UpdateRows(table_name, FrameWhere, updates, fault)
        \/ \E fault \in {"none", "write_table"} : DeleteRows(table_name, FrameWhere, fault)
    \/ CreateTable("u", UsersDefinition, "none")
    \/ InsertRow("u", FrameRow, "none")
    \/ Restart

SpecFrame == Init /\ [][NextFrame]_vars

-----------------------------------------------------------------------------
(* Properties *)

HasSchema(t) == schema_file.exists /\ t \in DOMAIN schema_file.tables
HasPk(t) == HasSchema(t) /\ schema_file.tables[t].primary_key # NoPk
PkOf(t) == schema_file.tables[t].primary_key

\* the rows persisted for a table whose file exists
Rows(t) == json_load(files[t])

\* the positions of the persisted rows a predicate matches
Matched(t, where) == { i \in 1..Len(Rows(t)) : eval_where(where, Rows(t)[i]) }

\* C1: in every reachable state, no two persisted rows of a table that
\* declares a primary key hold the same primary-key value.
C1_PrimaryKeyUnique ==
    \A t \in DataTables :
        (HasPk(t) /\ t \in DOMAIN files) =>
            \A i, j \in 1..Len(Rows(t)) :
                i # j => ~PyEq(Get(Rows(t)[i], PkOf(t)), Get(Rows(t)[j], PkOf(t)))

\* C2: insert_row of a valid row whose primary-key value some persisted row
\* already holds fails with UniquenessViolation and leaves the persisted
\* table content unchanged.
C2_DuplicateInsertFails ==
    [][ \A t \in DataTables, row \in RowInputs, fault \in {"none", "write_table"} :
          ( /\ ret'.op = "insert_row" /\ ret'.table = t
            /\ HasPk(t) /\ t \in DOMAIN files
            /\ validate_row(schema_file.tables[t].columns, row)
            /\ \E i \in 1..Len(Rows(t)) : PyEq(Get(Rows(t)[i], PkOf(t)), row[PkOf(t)])
            /\ InsertRow(t, row, fault) )
          => (ret'.err = "UniquenessViolation" /\ files' = files) ]_vars

\* C3: after a successful update_rows that changes no primary-key value,
\* select_by_primary_key of the key of every updated row returns the updated
\* persisted row, and update_rows returns the number of rows matched.
C3_UpdateVisibleByKey ==
    [][ \A t \in DataTables, where \in WhereInputs, updates \in UpdateInputs,
           fault \in {"none", "write_table"} :
          ( /\ ret'.op = "update_rows" /\ ret'.err = "ok"
            /\ HasPk(t)
            /\ PkOf(t) \notin DOMAIN updates
            /\ UpdateRows(t, where, updates, fault) )
          => /\ ret'.count = Cardinality(Matched(t, where))
             /\ \A i \in Matched(t, where) :
                    select_by_primary_key(State', t, Rows(t)'[i][PkOf(t)]) = Rows(t)'[i] ]_vars

\* C4: right after load_table_index succeeds on a table with a primary key,
\* select_by_primary_key returns the persisted row for every key a persisted
\* row holds, and nothing for every other key.
C4_LoadedIndexAgrees ==
    ( /\ ret.op = "load_table_index" /\ ret.err = "ok"
      /\ ret.table \in DataTables /\ HasPk(ret.table) )
    => LET t == ret.table IN
       /\ \A i \in 1..Len(Rows(t)) :
              select_by_primary_key(State, t, Rows(t)[i][PkOf(t)]) = Rows(t)[i]
       /\ \A k \in KeyInputs :
              (\A i \in 1..Len(Rows(t)) : ~PyEq(Rows(t)[i][PkOf(t)], k))
              => select_by_primary_key(State, t, k) = NoneV

C4_Witness ==
    /\ ret.op = "load_table_index" /\ ret.err = "ok"
    /\ ret.table \in DataTables /\ HasPk(ret.table)
    /\ Len(Rows(ret.table)) = 2

\* C5: between calls, for every data table name the schema entry exists if
\* and only if the storage artifact exists.
C5_SchemaIffStorage ==
    \A t \in DataTables : HasSchema(t) <=> t \in DOMAIN files

\* C6: every row persisted for a table has exactly the columns its schema
\* declares, each holding a value of the declared type.
C6_RowsSatisfySchema ==
    \A t \in DataTables :
        (HasSchema(t) /\ t \in DOMAIN files) =>
            \A i \in 1..Len(Rows(t)) :
                LET columns == schema_file.tables[t].columns
                    row == Rows(t)[i]
                IN  /\ DOMAIN row = DOMAIN columns
                    /\ \A col \in DOMAIN columns :
                          /\ columns[col] = "Int" => row[col].ty = "int"
                          /\ columns[col] = "String" => row[col].ty = "str"
                          /\ columns[col] = "Float" => row[col].ty \in {"int", "float"}
                          /\ columns[col] = "Bool" => row[col].ty = "bool"

C6_Witness ==
    /\ ret.op = "update_rows" /\ ret.err = "ok" /\ ret.count = 2
    /\ HasSchema(ret.table) /\ Len(Rows(ret.table)) = 2

\* C7: create_table on a fresh name immediately followed by a successful
\* drop_table of that name leaves the schema store, the storage artifacts
\* and the index map as they were before create_table.
C7_CreateDropSymmetry ==
    (ret.op = "drop_table" /\ ret.err = "ok" /\ snap.valid /\ snap.table = ret.table)
    => State = snap.st

C7_Witness ==
    /\ ret.op = "drop_table" /\ ret.err = "ok" /\ snap.valid /\ snap.table = ret.table
    /\ ret.table \in DataTables

\* C8: a read_table with no write since the last successful write_table of
\* that name returns the rows that were written, in the same order.
C8_ReadReturnsWritten ==
    (ret.op = "read_table" /\ ret.err = "ok" /\ ret.table \in DOMAIN written)
    => ret.rows = written[ret.table]

C8_Witness ==
    /\ ret.op = "read_table" /\ ret.err = "ok" /\ ret.table \in DOMAIN written
    /\ Len(ret.rows) = 2
    /\ ret.rows[1] = [id |-> FloatV(2), name |-> StrV("1")]
    /\ ret.rows[2] = [id |-> BoolV(TRUE), name |-> StrV("true")]

\* the case of C9: the schema step of create_table succeeds and the storage
\* artifact of that name already exists
StorageStepFails(table_name, definition, fault) ==
    /\ ret'.op = "create_table" /\ ret'.table = table_name
    /\ table_exists(State, table_name)
    /\ create_table_schema(State, table_name, definition.columns,
                           definition.primary_key, fault).err = "ok"
    /\ CreateTable(table_name, definition, fault)

CreateFaults == {"none", "save_schema", "rollback"}

\* C9 as stated: when the storage step of create_table fails after the schema
\* was persisted, the original storage error is raised and the schema store
\* equals the schema store before the call.
C9_AlwaysRolledBack ==
    [][ \A t \in TableNames, definition \in Definitions, fault \in CreateFaults :
          StorageStepFails(t, definition, fault)
          => (ret'.err = "FileExistsError" /\ schema_file' = schema_file) ]_vars

\* C9 amended: when the storage step of create_table fails after the schema
\* was persisted, the schema entry is dropped and the original storage error
\* raised, leaving the schema store as before the call, unless saving the
\* compensating drop itself fails: then an IO error is raised and the just
\* created schema entry stays.
C9_RollbackOnStorageFailure ==
    [][ \A t \in TableNames, definition \in Definitions, fault \in CreateFaults :
          StorageStepFails(t, definition, fault)
          => IF fault = "rollback"
             THEN ret'.err = "IOError" /\ t \in DOMAIN schema_file'.tables
             ELSE ret'.err = "FileExistsError" /\ schema_file' = schema_file ]_vars

C9_Witness ==
    /\ ret.op = "create_table" /\ ret.err = "FileExistsError"
    /\ ret.table \in DOMAIN files
    /\ ~HasSchema(ret.table)

\* C10: drop_table drops the index, then deletes the storage artifact, then
\* drops the schema; a failing step keeps the effects of the earlier steps
\* and runs no later step.
C10_DropOrder ==
    [][ \A t \in TableNames, fault \in {"none", "save_schema"} :
          (ret'.op = "drop_table" /\ DropTable(t, fault))
          => /\ t \notin DOMAIN indexes'
             /\ \A u \in DOMAIN indexes \ {t} : u \in DOMAIN indexes' /\ indexes'[u] = indexes[u]
             /\ ~table_exists(State, t)
                    => /\ ret'.err = "FileNotFoundError"
                       /\ files' = files
                       /\ schema_file' = schema_file
             /\ table_exists(State, t)
                    => /\ ~table_exists(State', t)
                       /\ \A u \in DOMAIN files \ {t} : u \in DOMAIN files' /\ files'[u] = files[u]
                       /\ (ret'.err # "ok" /\ t # SchemaStoreName) => schema_file' = schema_file
                       /\ ret'.err = "ok" => ~HasSchema(t)' ]_vars

C10_Witness ==
    /\ ret.op = "drop_table" /\ ret.err = "FileNotFoundError"
    /\ HasSchema(ret.table)
    /\ ret.table \notin DOMAIN indexes

\* C11: insert_row adds the index entry only after write_table succeeded: a
\* call that raises (validation, uniqueness check or write) leaves the index
\* exactly as it was, and a call that returns has written the row and
\* indexed it.
C11_IndexOnlyAfterWrite ==
    [][ \A t \in DataTables, row \in RowInputs, fault \in {"none", "write_table"} :
          (ret'.op = "insert_row" /\ ret'.table = t /\ InsertRow(t, row, fault))
          => /\ ret'.err # "ok" => indexes' = indexes
             /\ (ret'.err = "ok" /\ HasPk(t))
                    => /\ Rows(t)' = Append(Rows(t), row)
                       /\ select_by_primary_key(State', t, row[PkOf(t)]) = row ]_vars

C11_Witness ==
    /\ ret.op = "insert_row" /\ ret.err = "IOError"
    /\ HasPk(ret.table)
    /\ ret.table \in DOMAIN indexes
    /\ ret.table \in DOMAIN files /\ Len(Rows(ret.table)) = 1

\* C12: when write_table raises at any step, the temporary artifact is gone,
\* the error is an IO error, and the artifact of that name has the content
\* (or the absence) it had before the call.  (A step that leaves ret with
\* op "write_table" is a write_table call: no other call returns that op.)
C12_FailedWriteLeavesOriginal ==
    [][ (ret'.op = "write_table" /\ ret'.err # "ok")
        => /\ ret'.err = "IOError"
           /\ ret'.table \notin DOMAIN tmp_files'
           /\ files' = files ]_vars

C12_Witness ==
    /\ ret.op = "write_table" /\ ret.err = "IOError"
    /\ ret.table \in DOMAIN files
    /\ Len(Rows(ret.table)) = 2

\* C13: a read_table that overlaps a write_table of the same table, at
\* whichever statement of the write it opens and loads the file, returns
\* without error either the complete rows the table held before the write or
\* the complete rows being written.
C13_ReaderSeesOldOrNew ==
    [][ (calls[Reader].pc = "load" /\ ReadLoad(Reader))
        => /\ ret'.err = "ok"
           /\ (calls[Writer].pc # "idle" /\ calls[Writer].table = ret'.table)
                 => ret'.rows \in {calls[Writer].before, calls[Writer].rows} ]_vars

\* the reader opened the table when the temporary file held one of two rows,
\* and returned while the write was still in progress
C13_Witness ==
    /\ ret.op = "read_table" /\ ret.err = "ok"
    /\ calls[Reader].pc = "done" /\ calls[Reader].n = 1
    /\ calls[Writer].pc = "dump" /\ Len(calls[Writer].rows) = 2
    /\ calls[Writer].table = ret.table
    /\ ret.rows = calls[Writer].before
    /\ ret.rows # SubSeq(calls[Writer].rows, 1, 1)


\* C14: of two insert_row calls with distinct keys that run concurrently on
\* one table, each writes the rows it read plus its own row, whatever the
\* other has written since; so both can return while the table holds only
\* the row of the later write (C14_Witness is such a state).
C14_WritesWhatItRead ==
    [][ \A th \in Threads :
          (calls[th].pc = "check" /\ InsertStore(th, "none") /\ ret'.err = "ok")
          => Rows(calls[th].table)' = Append(calls[th].rows, calls[th].row) ]_vars

\* both calls returned, each had read the empty table, and the table holds
\* one row only
C14_Witness ==
    /\ calls[1].pc = "returned" /\ calls[2].pc = "returned"
    /\ calls[1].table = calls[2].table
    /\ calls[1].rows = <<>> /\ calls[2].rows = <<>>
    /\ ~PyEq(calls[1].row.id, calls[2].row.id)
    /\ ret.op = "insert_row" /\ ret.err = "ok"
    /\ \E th \in Threads :
          /\ Rows(calls[th].table) = <<calls[th].row>>
          /\ \A o \in Threads \ {th} :
                \A i \in 1..Len(Rows(calls[th].table)) :
                    Rows(calls[th].table)[i] # calls[o].row


\* C15: while a table has no index in this process (after a restart, before
\* load_table_index), select_by_primary_key returns None for every key, also
\* for the keys of persisted rows; and whatever it returns that is not None
\* is the row the index holds under that key.
C15_NoIndexNoRow ==
    \A t \in DataTables, k \in KeyInputs :
        LET r == select_by_primary_key(State, t, k) IN
        /\ t \notin DOMAIN indexes => r = NoneV
        /\ r # NoneV => /\ t \in DOMAIN indexes
                        /\ Key(k) \in DOMAIN indexes[t]
                        /\ r = indexes[t][Key(k)]

C15_Witness ==
    /\ ret.op = "restart"
    /\ \E t \in DataTables :
          /\ t \notin DOMAIN indexes
          /\ HasPk(t) /\ t \in DOMAIN files /\ Len(Rows(t)) >= 1
          /\ \E k \in KeyInputs : PyEq(Rows(t)[1][PkOf(t)], k)


\* the acceptance rule as the specification states it
Accepted(columns, row) ==
    /\ DOMAIN row = DOMAIN columns
    /\ \A col \in DOMAIN columns :
          \/ columns[col] = "Int" /\ row[col].ty = "int"
          \/ columns[col] = "Float" /\ row[col].ty \in {"int", "float"}
          \/ columns[col] = "String" /\ row[col].ty = "str"
          \/ columns[col] = "Bool" /\ row[col].ty = "bool"

\* C16: validate_row accepts a row exactly when the row's columns are the
\* declared columns and every value has its column's type (Int: an integer
\* that is not a boolean; Float: an integer or float that is not a boolean;
\* String: a string; Bool: a boolean), and rejects every other row.
C16_ValidateRowExact ==
    ret.op = "validate_row"
    => (ret.err = "ok" <=> Accepted(schema_file.tables[ret.table].columns, ret.rows[1]))

\* accepted: an integer in a Float column next to an Int column
C16_Witness ==
    /\ ret.op = "validate_row" /\ ret.err = "ok"
    /\ schema_file.tables[ret.table].columns = [a |-> "Int", b |-> "Float"]
    /\ ret.rows[1] = [a |-> IntV(1), b |-> IntV(1)]


\* the pairs (i, j) of rows that both carry the column with equal values
JoinPairs(A, B, col) ==
    { p \in (1..Len(A)) \X (1..Len(B)) :
        /\ col \in DOMAIN A[p[1]] /\ col \in DOMAIN B[p[2]]
        /\ PyEq(A[p[1]][col], B[p[2]][col]) }

\* C17: nested_loop_join returns one merged row for each pair of rows that
\* both carry the join column with equal values, and no row for any other
\* pair, pairs in which the column is absent from a row included; a merged
\* row is the union of the two rows' fields, with the right row's value for a
\* field in both.
C17_JoinMatchingPairsOnly ==
    [][ \A left_table \in JoinTables, right_table \in JoinTables, on_column \in JoinColumns :
          NestedLoopJoin(left_table, right_table, on_column)
          => LET A == Rows(left_table)
                 B == Rows(right_table)
                 pairs == JoinPairs(A, B, on_column)
             IN  /\ Len(ret'.rows) = Cardinality(pairs)
                 /\ \A p \in pairs :
                       \E k \in 1..Len(ret'.rows) :
                           ret'.rows[k] = merge_rows(A[p[1]], B[p[2]]) ]_vars


\* C18: a delete_rows that returns gives the number of persisted rows the
\* predicate matches and leaves persisted the other rows in their order;
\* afterwards select_by_primary_key returns None for the key of every deleted
\* row, and still returns its row for the indexed key of every surviving row.
C18_DeleteRows ==
    [][ \A t \in DataTables, where \in WhereInputs :
          (ret'.op = "delete_rows" /\ ret'.table = t /\ ret'.err = "ok"
             /\ DeleteRows(t, where, "none"))
          => /\ ret'.count = Cardinality(Matched(t, where))
             /\ Rows(t)' = SelectSeq(Rows(t), LAMBDA row : ~eval_where(where, row))
             /\ HasPk(t) =>
                  \A i \in 1..Len(Rows(t)) :
                      LET k == Rows(t)[i][PkOf(t)] IN
                      IF i \in Matched(t, where)
                      THEN select_by_primary_key(State', t, k) = NoneV
                      ELSE select_by_primary_key(State, t, k) # NoneV
                           => select_by_primary_key(State', t, k)
                                = select_by_primary_key(State, t, k) ]_vars


\* a row with every field/value pair of updates applied
Updated(row, updates) ==
    [col \in DOMAIN row \cup DOMAIN updates |->
        IF col \in DOMAIN updates THEN updates[col] ELSE row[col]]

\* C19: in every reachable state and for every predicate and updates, an
\* update_rows that returns gives the number of persisted rows the predicate
\* matches and persists, in the original order, every matching row with each
\* field/value pair of updates applied and every other row unchanged.
C19_UpdateAppliesEveryPair ==
    \A t \in DataTables \cap DOMAIN files, where \in WhereInputs, updates \in UpdateInputs :
        LET r == update_rows(State, t, where, updates, "none")
            rows == Rows(t)
            matched == Matched(t, where)
        IN  r.err = "ok"
            => /\ r.count = Cardinality(matched)
               /\ json_load(r.st.files[t]) =
                     [i \in 1..Len(rows) |->
                         IF i \in matched THEN Updated(rows[i], updates) ELSE rows[i]]


\* C20: an update_rows that raises because a matched row fails validation
\* after its update has persisted nothing: the table's content is what it was
\* before the call, though the row was already changed in memory.  (A step
\* that leaves ret with op "update_rows" is an update_rows call: no other
\* call returns that op.)
C20_InvalidUpdatePersistsNothing ==
    [][ (ret'.op = "update_rows" /\ ret'.err = "ValidationError")
        => files' = files ]_vars

\* the update was refused on a table of two rows that the predicate matches
C20_Witness ==
    /\ ret.op = "update_rows" /\ ret.err = "ValidationError"
    /\ ret.table \in DOMAIN files /\ Len(Rows(ret.table)) = 2
    /\ \E where \in WhereInputs : Cardinality(Matched(ret.table, where)) = 2


\* C19, amended: in every reachable state and for every predicate and
\* updates, an update_rows that returns gives the number of persisted rows
\* the predicate matches and persists, in the original order, every matching
\* row with those field/value pairs of updates applied whose field the row
\* has (a pair that names a field the row lacks is ignored), and every other
\* row unchanged.
C19_UpdateAppliesPresentPairs ==
    \A t \in DataTables \cap DOMAIN files, where \in WhereInputs, updates \in UpdateInputs :
        LET r == update_rows(State, t, where, updates, "none")
            rows == Rows(t)
            matched == Matched(t, where)
        IN  r.err = "ok"
            => /\ r.count = Cardinality(matched)
               /\ json_load(r.st.files[t]) =
                     [i \in 1..Len(rows) |->
                         IF i \in matched
                         THEN [col \in DOMAIN rows[i] |->
                                  IF col \in DOMAIN updates THEN updates[col]
                                  ELSE rows[i][col]]
                         ELSE rows[i]]

\* one of two rows was matched and updated
C19_Witness ==
    /\ ret.op = "update_rows" /\ ret.err = "ok" /\ ret.count = 1
    /\ ret.table \in DOMAIN files /\ Len(Rows(ret.table)) = 2
    /\ Rows(ret.table)[1].name = StrV("z")
    /\ Rows(ret.table)[2].name = StrV("a")
    /\ PyEq(Rows(ret.table)[1].id, IntV(1))


\* the updates that assign the primary-key column of t
KeyUpdates(t) == { updates \in UpdateInputs : PkOf(t) \in DOMAIN updates }

\* C21: in every reachable state and for every predicate and updates, after
\* an update_rows that returns and has changed a row's primary-key value from
\* k to k2, select_by_primary_key returns None for k and the updated row for
\* k2.
C21_RekeyedRowFoundByNewKey ==
    \A t \in DataTables \cap DOMAIN files, where \in WhereInputs :
        HasPk(t) =>
        \A updates \in KeyUpdates(t) :
            LET r == update_rows(State, t, where, updates, "none")
                rows == Rows(t)
            IN  r.err = "ok"
                => \A i \in Matched(t, where) :
                       LET new_row == json_load(r.st.files[t])[i]
                           k == rows[i][PkOf(t)]
                           k2 == new_row[PkOf(t)]
                       IN  ~PyEq(k, k2)
                           => /\ select_by_primary_key(r.st, t, k) = NoneV
                              /\ select_by_primary_key(r.st, t, k2) = new_row

\* a state in which an indexed row can be re-keyed, and is
C21_Witness ==
    \E t \in DataTables \cap DOMAIN files, where \in WhereInputs :
        /\ HasPk(t)
        /\ \E updates \in KeyUpdates(t) :
              LET r == update_rows(State, t, where, updates, "none") IN
              /\ r.err = "ok"
              /\ \E i \in Matched(t, where) :
                    /\ ~PyEq(Rows(t)[i][PkOf(t)], updates[PkOf(t)])
                    /\ select_by_primary_key(State, t, Rows(t)[i][PkOf(t)]) = Rows(t)[i]
                    /\ select_by_primary_key(r.st, t, updates[PkOf(t)])
                          = json_load(r.st.files[t])[i]


\* the rows the specification has select_rows return
Selected(rows, where, columns) ==
    LET kept == SelectSeq(rows, LAMBDA row : where = NoneV \/ eval_where(where, row))
        requested == { columns.list[j] : j \in 1..Len(columns.list) }
    IN  IF columns.none THEN kept
        ELSE [i \in 1..Len(kept) |->
                [col \in requested \cap DOMAIN kept[i] |-> kept[i][col]]]

\* C22: select_rows returns, in persisted order, the persisted rows that
\* satisfy the predicate (all rows without a predicate); when columns is
\* given, every returned row holds only the requested columns the row has.
C22_SelectRows ==
    [][ \A t \in JoinTables, where \in QueryWheres, columns \in ColumnInputs :
          (ret'.op = "select_rows" /\ ret'.table = t /\ SelectRows(t, where, columns))
          => /\ ret'.err = "ok"
             /\ ret'.rows = Selected(Rows(t), where, columns) ]_vars


\* the primary-key values of the persisted rows of t, as index keys
PersistedKeys(t) == { Key(Rows(t)[i][PkOf(t)]) : i \in 1..Len(Rows(t)) }

\* the index of t holds exactly the keys of the persisted rows, one row each
IndexInStep(t) ==
    (HasPk(t) /\ t \in DOMAIN files)
    => /\ t \in DOMAIN indexes
       /\ DOMAIN indexes[t] = PersistedKeys(t)
       /\ Cardinality(PersistedKeys(t)) = Len(Rows(t))

\* C23: a load_table_index that returns on a table with a primary key leaves
\* the index with exactly the keys of the persisted rows, and every call on
\* the table that returns after that keeps it so: by induction, the key sets
\* are equal after any sequence of calls that all return.
C23_IndexKeysFollowRows ==
    [][ \A t \in DataTables :
          (ret'.table = t /\ ret'.err = "ok" /\ ret'.op # "restart")
          => /\ ret'.op = "load_table_index" => IndexInStep(t)'
             /\ IndexInStep(t) => IndexInStep(t)' ]_vars


\* a delete has returned and left one of two indexed rows
C23_Witness ==
    /\ ret.op = "delete_rows" /\ ret.err = "ok" /\ ret.count = 1
    /\ ret.table \in DataTables /\ HasPk(ret.table)
    /\ ret.table \in DOMAIN files /\ Len(Rows(ret.table)) = 1
    /\ ret.table \in DOMAIN indexes
    /\ DOMAIN indexes[ret.table] = PersistedKeys(ret.table)


\* C24: an update_rows or delete_rows that raises (validation failure, key
\* collision in the index, write failure) leaves the index of the table with
\* the keys and entries it had before the call.
C24_FailedCallKeepsIndex ==
    [][ (ret'.op \in {"update_rows", "delete_rows"} /\ ret'.err # "ok")
        => indexes' = indexes ]_vars


\* the rows update_rows would persist if nothing stopped it
WouldPersist(t, where, updates) ==
    [i \in 1..Len(Rows(t)) |->
        IF i \in Matched(t, where) THEN apply_updates(Rows(t)[i], updates) ELSE Rows(t)[i]]

\* a matched row is given the key that another row of the result holds
WouldCollide(t, where, updates) ==
    \E i \in Matched(t, where), j \in 1..Len(Rows(t)) :
        /\ i # j
        /\ PyEq(WouldPersist(t, where, updates)[i][PkOf(t)],
                WouldPersist(t, where, updates)[j][PkOf(t)])

\* C25: in every reachable state in which the index of the table holds
\* exactly the primary-key values of the persisted rows, an update_rows that
\* assigns the primary key and would leave two rows with one key raises and
\* persists nothing.
C25_CollidingUpdateRaises ==
    \A t \in DataTables \cap DOMAIN files, where \in WhereInputs :
        (HasPk(t) /\ t \in DOMAIN indexes /\ DOMAIN indexes[t] = PersistedKeys(t))
        => \A updates \in KeyUpdates(t) :
              WouldCollide(t, where, updates)
              => LET r == update_rows(State, t, where, updates, "none") IN
                 r.err # "ok" /\ r.st.files = files


\* the definitions create_table_schema rejects
Rejected(definition) ==
    \/ definition.primary_key # NoPk /\ definition.primary_key \notin DOMAIN definition.columns
    \/ \E c \in DOMAIN definition.columns : definition.columns[c] \notin valid_types

\* C26: in every reachable state, a create_table on a name that has a schema
\* entry, or with a primary key that is not a declared column, or with a
\* column type outside Int, Float, String, Bool, fails and leaves the schema
\* store, every table file and every index as they were.
C26_RejectedCreateChangesNothing ==
    \A table_name \in TableNames, definition \in Definitions,
       fault \in {"none", "save_schema", "rollback"} :
        (\/ schema_file.exists /\ table_name \in DOMAIN schema_file.tables
         \/ Rejected(definition))
        => LET r == create_table(State, table_name, definition.columns,
                                 definition.primary_key, fault) IN
           r.err # "ok" /\ r.st = State

\* a create_table on a table that holds a row was refused
C26_Witness ==
    /\ ret.op = "create_table" /\ ret.table = "t" /\ ret.err = "AlreadyExists"
    /\ "t" \in DOMAIN schema_file.tables
    /\ "t" \in DOMAIN files /\ Len(Rows("t")) = 1
    /\ "t" \in DOMAIN indexes


\* the columns a build may be told to use as the key
BuildKeys == {"id", "name", "email"}

\* a row without a value under the key, or two rows with one value under it
Unbuildable(rows, primary_key) ==
    \/ \E i \in 1..Len(rows) : Get(rows[i], primary_key) = NoneV
    \/ \E i, j \in 1..Len(rows) :
            i # j /\ PyEq(Get(rows[i], primary_key), Get(rows[j], primary_key))

\* C27: in every reachable state, build_index over the rows of a table either
\* succeeds and makes the table's index exactly the mapping from each row's
\* key value to that row, or fails, when a row lacks the key value or two rows
\* share one, and leaves all indexes unchanged; and load_table_index on a
\* table whose persisted rows hold a duplicate key fails and keeps the indexes.
C27_BuildReplacesOrKeeps ==
    \A t \in DataTables \cap DOMAIN files :
        /\ \A primary_key \in BuildKeys :
            LET rows == Rows(t)
                r == build_index(State, t, rows, primary_key)
            IN  IF Unbuildable(rows, primary_key)
                THEN r.err # "ok" /\ r.st = State
                ELSE /\ r.err = "ok"
                     /\ r.st = [State EXCEPT !.indexes = r.st.indexes]
                     /\ DOMAIN r.st.indexes = DOMAIN indexes \cup {t}
                     /\ \A u \in DOMAIN indexes \ {t} : r.st.indexes[u] = indexes[u]
                     /\ DOMAIN r.st.indexes[t]
                            = { Key(rows[i][primary_key]) : i \in 1..Len(rows) }
                     /\ \A i \in 1..Len(rows) :
                            r.st.indexes[t][Key(rows[i][primary_key])] = rows[i]
        /\ (HasPk(t) /\ Unbuildable(Rows(t), PkOf(t)))
            => LET r == load_table_index(State, t) IN r.err # "ok" /\ r.st = State

\* load_table_index failed on a table that persists one key twice, and the
\* index it had is still there
C27_Witness ==
    /\ ret.op = "load_table_index" /\ ret.table = "t" /\ ret.err # "ok"
    /\ "t" \in DOMAIN files /\ HasPk("t") /\ Unbuildable(Rows("t"), PkOf("t"))
    /\ "t" \in DOMAIN indexes /\ indexes["t"] # EmptyDict


\* what the engines hold for one table: its schema entry, its file, its index
SchemaEntry(b) == IF HasSchema(b) THEN <<schema_file.tables[b]>> ELSE <<>>
StoredFile(b) == IF b \in DOMAIN files THEN <<files[b]>> ELSE <<>>
IndexOf(b) == IF b \in DOMAIN indexes THEN <<indexes[b]>> ELSE <<>>

EngineOps ==
    {"create_table", "insert_row", "update_rows", "delete_rows", "drop_table",
     "load_table_index"}

\* C28: a create_table, insert_row, update_rows, delete_rows, drop_table or
\* load_table_index called with one table name, returning or raising, leaves
\* the schema entry, the persisted rows and the index of every other table
\* unchanged.
C28_OtherTablesUntouched ==
    [][ \A b \in FrameTables :
            (ret'.op \in EngineOps /\ ret'.table # b)
            => /\ SchemaEntry(b)' = SchemaEntry(b)
               /\ StoredFile(b)' = StoredFile(b)
               /\ IndexOf(b)' = IndexOf(b) ]_vars


ReadOps == {"select_rows", "select_by_primary_key", "nested_loop_join"}

\* C29: a select_rows, select_by_primary_key or nested_loop_join, returning a
\* result or raising, leaves the schema store, the content of every table
\* file and every index unchanged.
C29_ReadsChangeNothing ==
    [][ ret'.op \in ReadOps
        => /\ schema_file' = schema_file
           /\ files' = files
           /\ tmp_files' = tmp_files
           /\ indexes' = indexes ]_vars

\* a join raised on a table without a file while an index was loaded
C29_Witness ==
    /\ ret.op = "nested_loop_join" /\ ret.err = "FileNotFoundError"
    /\ "t" \in DOMAIN indexes
    /\ "v" \notin DOMAIN files

====
